---- MODULE Spec2Model ----
(***************************************************************************)
(* Model of the decode code that minicbor-derive generates for structs and *)
(* enums (minicbor-derive/src/decode.rs) and of the built-in Encode impls  *)
(* of minicbor (minicbor/src/encode.rs).                                   *)
(*                                                                         *)
(* The wire is a sequence of CBOR item heads (tokens); the Decoder is a    *)
(* cursor `pos` into it.  The generated decode function of the top-level   *)
(* type runs step by step (header, one loop iteration per step, result);   *)
(* the decode of a field's value is the same generated code evaluated as   *)
(* a recursive operator.                                                   *)
(***************************************************************************)
EXTENDS Integers, Sequences, FiniteSets, TLC

\* ------------------------------------------------------------------ bounds
\* Longest list of items put into the container that is decoded.
MaxItems == 3
\* Most elements of a sequence, array, tuple or map that is encoded.
MaxElems == 2

\* ------------------------------------------------------------------ wire
\* One token per CBOR item head.
Tok(t, v) == [t |-> t, v |-> v]
TUint(n)  == Tok("uint", n)
TNull     == Tok("null", 0)
TStr      == Tok("str", 0)
TArr(n)   == Tok("arr", n)
TArrI     == Tok("arrI", 0)
TMap(n)   == Tok("map", n)
TMapI     == Tok("mapI", 0)
TBreak    == Tok("brk", 0)

\* ------------------------------------------------------------------ results
\* Result<T, Error> together with the cursor the call leaves behind.
Ok(v, p)  == [ok |-> TRUE,  val |-> v,    err |-> <<>>, pos |-> p]
Err(e, p) == [ok |-> FALSE, val |-> <<>>, err |-> e,    pos |-> p]

EndOfInput         == <<"EndOfInput">>
TypeMismatch       == <<"TypeMismatch">>
Message(s)         == <<"Message", s>>
UnknownVariant(n)  == <<"UnknownVariant", n>>
MissingValue(i, s) == <<"MissingValue", i, s>>

\* Option<T>
None     == <<"none">>
Some(x)  == <<"some", x>>

\* ------------------------------------------------------------------ Decoder
\* Decoder::datatype: the type of the item under the cursor; the cursor stays.
datatype(inp, pos) ==
    IF pos > Len(inp) THEN Err(EndOfInput, pos) ELSE Ok(inp[pos].t, pos)

\* Decoder::u32
u32(inp, pos) ==
    IF pos > Len(inp) THEN Err(EndOfInput, pos)
    ELSE IF inp[pos].t = "uint" THEN Ok(inp[pos].v, pos + 1)
    ELSE Err(TypeMismatch, pos)

\* Decoder::array: Some(len) as len, None (indefinite length) as -1.
array(inp, pos) ==
    IF pos > Len(inp) THEN Err(EndOfInput, pos)
    ELSE IF inp[pos].t = "arr"  THEN Ok(inp[pos].v, pos + 1)
    ELSE IF inp[pos].t = "arrI" THEN Ok(-1, pos + 1)
    ELSE Err(TypeMismatch, pos)

\* Decoder::map: Some(len) as len, None (indefinite length) as -1.
map(inp, pos) ==
    IF pos > Len(inp) THEN Err(EndOfInput, pos)
    ELSE IF inp[pos].t = "map"  THEN Ok(inp[pos].v, pos + 1)
    ELSE IF inp[pos].t = "mapI" THEN Ok(-1, pos + 1)
    ELSE Err(TypeMismatch, pos)

\* The one element of a singleton set.  { F(x) : x \in {e} } evaluates e
\* once and hands F its value; Only takes the result out again.
Only(S) == CHOOSE x \in S : TRUE

\* Decoder::skip keeps count of the containers still open, innermost
\* first: the number of items a definite one still holds, -1 for an
\* indefinite one (ended by a break).  The count after the head t was read.
skip_open(t, open) ==
    LET rest == IF Head(open) > 0
                   THEN <<Head(open) - 1>> \o Tail(open)
                   ELSE open
    IN CASE t.t = "arr"  -> <<t.v>> \o rest
         [] t.t = "map"  -> <<2 * t.v>> \o rest
         [] t.t \in {"arrI", "mapI"} -> <<-1>> \o rest
         [] t.t = "brk"  -> IF Head(open) = -1 THEN Tail(open) ELSE rest
         [] OTHER        -> rest

\* Decoder::skip: step over one whole item, nested items included.
RECURSIVE SkipItems(_, _, _)
SkipItems(inp, pos, open) ==
    IF open = <<>> THEN Ok(<<>>, pos)
    ELSE IF Head(open) = 0 THEN SkipItems(inp, pos, Tail(open))
    ELSE IF pos > Len(inp) THEN Err(EndOfInput, pos)
    ELSE Only({ SkipItems(inp, pos + 1, o) : o \in {skip_open(inp[pos], open)} })

skip(inp, pos) == SkipItems(inp, pos, <<1>>)

\* ------------------------------------------------------------------ schema
\* What the derive macro reads from the annotated type: `Fields` (indices,
\* idents, types, attrs), `Variants` and the type-level `Attributes`.
Field(idx, name, ty) ==
    [idx |-> idx, name |-> name, ty |-> ty, custom |-> FALSE, is_b |-> FALSE]
CustomField(idx, name, ty) ==
    [idx |-> idx, name |-> name, ty |-> ty, custom |-> TRUE, is_b |-> FALSE]
BorrowField(idx, name, ty) ==
    [idx |-> idx, name |-> name, ty |-> ty, custom |-> FALSE, is_b |-> TRUE]
Variant(idx, con, unit, enc, fields) ==
    [idx |-> idx, con |-> con, unit |-> unit, enc |-> enc, fields |-> fields]

TypeDef(kind, of, enc, transparent, index_only, fields, variants) ==
    [kind |-> kind, of |-> of, enc |-> enc, transparent |-> transparent,
     index_only |-> index_only, fields |-> fields, variants |-> variants]
LeafType(kind)          == TypeDef(kind, "", "", FALSE, FALSE, <<>>, <<>>)
OptionType(of)          == TypeDef("option", of, "", FALSE, FALSE, <<>>, <<>>)
CowType(of)             == TypeDef("cow", of, "", FALSE, FALSE, <<>>, <<>>)
StructType(enc, fields) == TypeDef("struct", "", enc, FALSE, FALSE, fields, <<>>)
TransparentType(fields) == TypeDef("struct", "", "array", TRUE, FALSE, fields, <<>>)
EnumType(enc, index_only, variants) ==
    TypeDef("enum", "", enc, FALSE, index_only, <<>>, variants)

\* The types of the model.
\*   enum E { #[n(0)] A, #[n(1)] B { #[n(0)] v: u32 } }
\*   #[cbor(index_only)] enum K { #[n(0)] P, #[n(1)] Q }
\*   struct Rec   { #[n(0)] x: u32, #[n(1)] y: Option<u32> }
\*   struct Fwd   { #[n(0)] e: Option<E>, #[n(1)] k: Option<K>, #[n(2)] n: u32 }
\*   struct Req   { #[n(0)] a: u32, #[n(2)] e: E }
\*   struct Inner { #[n(0)] e: E, #[n(1)] m: Option<u32> }
\*   struct Deep  { #[n(0)] i: Option<Inner>, #[n(1)] n: u32 }
\*   struct Lax   { #[n(0)] i: Option<Inner>, #[n(1)] m: Option<u32> }
\*   #[cbor(map)] struct MRec { #[n(1)] x: u32, #[n(4)] e: Option<E>,
\*                              #[b(5)] s: Cow<str> }
\*   struct OO    { #[n(0)] o: Option<Option<u32>>, #[n(1)] x: u32 }
\*   #[cbor(transparent)] struct Wrap(Rec)
\*   #[cbor(transparent)] struct Wrap0, Wrap2(u32, u32)   -- rejected
\*   #[cbor(transparent)] struct WrapC(#[cbor(with = "..")] u32) -- rejected
Types ==
    [ u32       |-> LeafType("u32"),
      str       |-> LeafType("str"),
      CowStr    |-> CowType("str"),
      OptU32    |-> OptionType("u32"),
      OptOptU32 |-> OptionType("OptU32"),
      E         |-> EnumType("array", FALSE,
                        << Variant(0, "A", TRUE, "array", <<>>),
                           Variant(1, "B", FALSE, "array", <<Field(0, "v", "u32")>>) >>),
      K         |-> EnumType("array", TRUE,
                        << Variant(0, "P", TRUE, "array", <<>>),
                           Variant(1, "Q", TRUE, "array", <<>>) >>),
      OptE      |-> OptionType("E"),
      OptK      |-> OptionType("K"),
      Rec       |-> StructType("array",
                        << Field(0, "x", "u32"), Field(1, "y", "OptU32") >>),
      Fwd       |-> StructType("array",
                        << Field(0, "e", "OptE"), Field(1, "k", "OptK"),
                           Field(2, "n", "u32") >>),
      Req       |-> StructType("array",
                        << Field(0, "a", "u32"), Field(2, "e", "E") >>),
      Inner     |-> StructType("array",
                        << Field(0, "e", "E"), Field(1, "m", "OptU32") >>),
      OptInner  |-> OptionType("Inner"),
      Deep      |-> StructType("array",
                        << Field(0, "i", "OptInner"), Field(1, "n", "u32") >>),
      Lax       |-> StructType("array",
                        << Field(0, "i", "OptInner"), Field(1, "m", "OptU32") >>),
      MRec      |-> StructType("map",
                        << Field(1, "x", "u32"), Field(4, "e", "OptE"),
                           BorrowField(5, "s", "CowStr") >>),
      OO        |-> StructType("array",
                        << Field(0, "o", "OptOptU32"), Field(1, "x", "u32") >>),
      Wrap      |-> TransparentType(<< Field(0, "0", "Rec") >>),
      Wrap0     |-> TransparentType(<< >>),
      Wrap2     |-> TransparentType(<< Field(0, "0", "u32"), Field(1, "1", "u32") >>),
      WrapC     |-> TransparentType(<< CustomField(0, "0", "u32") >>) ]

\* is_option(ty, |_| true): the field's type is written Option<..>.
is_option(ty) == Types[ty].kind = "option"
\* is_cow(ty, |t| is_str(t) || is_byte_slice(t))
is_cow(ty)    == Types[ty].kind = "cow" /\ Types[Types[ty].of].kind = "str"

\* ------------------------------------------------------------------ decode
RECURSIVE Decode(_, _, _)

\* A field's custom decode function (#[cbor(decode_with = "..")]): user
\* code; the one of the model reads a u32.
custom_decode(inp, pos) == u32(inp, pos)

\* decode_fn: the field's custom decode function, else Decode::decode.
decode_fn(f, inp, pos) ==
    IF f.custom THEN custom_decode(inp, pos) ELSE Decode(f.ty, inp, pos)

\* inits: Some(None) for a field of Option type, None otherwise.
inits(fs) ==
    [j \in 1..Len(fs) |-> IF is_option(fs[j].ty) THEN Some(None) ELSE None]

\* __d777.skip()? inside the statements: the slots stay, the cursor moves.
skip_on(inp, slots, pos) ==
    LET s == skip(inp, pos)
    IN IF s.ok THEN Ok(slots, s.pos) ELSE Err(s.err, s.pos)

\* action_match with the recovery arm generated for every field, not only
\* for the Option and the #[b] Cow ones.
action_match_lenient(fs, j, inp, st, r) ==
    IF r.ok THEN Ok([st.val EXCEPT ![j] =
                        IF fs[j].is_b /\ is_cow(fs[j].ty)
                            THEN Some(<<"Borrowed", r.val>>) ELSE Some(r.val)], r.pos)
    ELSE IF r.err[1] = "UnknownVariant" THEN skip_on(inp, st.val, r.pos)
    ELSE Err(r.err, r.pos)

\* action_match that assigns a slot only once: a later item for a field
\* already decoded is read and dropped.
action_match_keep_first(fs, j, inp, st, r) ==
    IF r.ok THEN
        IF st.val[j] = inits(fs)[j]
            THEN Ok([st.val EXCEPT ![j] =
                        IF fs[j].is_b /\ is_cow(fs[j].ty)
                            THEN Some(<<"Borrowed", r.val>>) ELSE Some(r.val)], r.pos)
            ELSE Ok(st.val, r.pos)
    ELSE IF r.err[1] = "UnknownVariant"
            /\ (is_option(fs[j].ty) \/ (fs[j].is_b /\ is_cow(fs[j].ty)))
         THEN skip_on(inp, st.val, r.pos)
    ELSE Err(r.err, r.pos)

\* One of the `actions`, given the result r of #decode_fn(__d777): what
\* becomes of the slot of field j.  `st` is Ok(slots, cursor).
action_match(fs, j, inp, st, r) ==
    IF is_option(fs[j].ty) THEN
        IF r.ok THEN Ok([st.val EXCEPT ![j] = Some(r.val)], r.pos)
        ELSE IF r.err[1] = "UnknownVariant" THEN skip_on(inp, st.val, r.pos)
        ELSE Err(r.err, r.pos)
    ELSE IF fs[j].is_b /\ is_cow(fs[j].ty) THEN
        IF r.ok THEN Ok([st.val EXCEPT ![j] = Some(<<"Borrowed", r.val>>)], r.pos)
        ELSE IF r.err[1] = "UnknownVariant" THEN skip_on(inp, st.val, r.pos)
        ELSE Err(r.err, r.pos)
    ELSE IF r.ok THEN Ok([st.val EXCEPT ![j] = Some(r.val)], r.pos)
         ELSE Err(r.err, r.pos)

\* One of the `actions`: decode the next item into the slot of field j.
action(fs, j, inp, st) ==
    Only({ action_match(fs, j, inp, st, r) : r \in {decode_fn(fs[j], inp, st.pos)} })

\* The arms `#(#indices => #actions)*`: the first field whose index is n,
\* 0 when the wildcard arm is taken.
arm(fs, n) ==
    IF \E j \in 1..Len(fs) : fs[j].idx = n
        THEN CHOOSE j \in 1..Len(fs) :
                /\ fs[j].idx = n
                /\ \A k \in 1..(j - 1) : fs[k].idx # n
        ELSE 0

\* match with an empty wildcard arm: `_ => {}`.
match_no_skip(fs, n, inp, st) ==
    IF arm(fs, n) # 0 THEN action(fs, arm(fs, n), inp, st)
    ELSE st

\* match n { #(#indices => #actions)* _ => __d777.skip()? }
match(fs, n, inp, st) ==
    IF arm(fs, n) # 0 THEN action(fs, arm(fs, n), inp, st)
    ELSE skip_on(inp, st.val, st.pos)

\* What an iteration matches on: Array the position __i777, Map the key it
\* reads with __d777.u32()?.
scrutinee(enc, i, inp, pos) ==
    IF enc = "array" THEN Ok(i, pos) ELSE u32(inp, pos)

\* The body of one loop iteration, given its scrutinee n.
body_match(fs, inp, st, n) ==
    IF n.ok THEN match(fs, n.val, inp, Ok(st.val, n.pos)) ELSE Err(n.err, n.pos)

\* The body of one loop iteration.
body(fs, enc, i, inp, st) ==
    Only({ body_match(fs, inp, st, n) : n \in {scrutinee(enc, i, inp, st.pos)} })

\* __d777.array()? or __d777.map()?
header(enc, inp, pos) ==
    IF enc = "array" THEN array(inp, pos) ELSE map(inp, pos)

RECURSIVE definite_loop(_, _, _, _, _, _)
\* After an iteration of the definite loop left st1: the `?` of the body
\* returns its error, else the loop goes on.
definite_next(fs, enc, i, len, inp, st1) ==
    IF st1.ok THEN definite_loop(fs, enc, i + 1, len, inp, st1) ELSE st1

\* for __i777 in 0 .. __len777 { .. }
definite_loop(fs, enc, i, len, inp, st) ==
    IF i >= len THEN st
    ELSE Only({ definite_next(fs, enc, i, len, inp, st1) :
                    st1 \in {body(fs, enc, i, inp, st)} })

\* The end of the indefinite loop: __d777.skip()? on the break.
loop_exit(inp, st) == skip_on(inp, st.val, st.pos)

RECURSIVE indefinite_loop(_, _, _, _, _)
\* After an iteration of the indefinite loop left st1: __i777 += 1.
indefinite_next(fs, enc, i, inp, st1) ==
    IF st1.ok THEN indefinite_loop(fs, enc, i + 1, inp, st1) ELSE st1

\* while Type::Break != __d777.datatype()? { .. } __d777.skip()?
indefinite_loop(fs, enc, i, inp, st) ==
    LET dt == datatype(inp, st.pos)
    IN IF ~dt.ok THEN Err(dt.err, dt.pos)
       ELSE IF dt.val = "brk" THEN loop_exit(inp, st)
       ELSE Only({ indefinite_next(fs, enc, i, inp, st1) :
                       st1 \in {body(fs, enc, i, inp, st)} })

\* gen_statements: the slots and the cursor after the container was read.
gen_statements(fs, enc, inp, pos) ==
    LET h == header(enc, inp, pos)
    IN IF ~h.ok THEN Err(h.err, h.pos)
       ELSE IF h.val >= 0
            THEN definite_loop(fs, enc, 0, h.val, inp, Ok(inits(fs), h.pos))
            ELSE indefinite_loop(fs, enc, 0, inp, Ok(inits(fs), h.pos))

\* format!("{}::{}", name, n)
field_str(name, n) == name \o "::" \o n

\* first_missing with the fields unwrapped last to first.
last_missing(slots) ==
    IF \E j \in 1..Len(slots) : slots[j] = None
        THEN CHOOSE j \in 1..Len(slots) :
                /\ slots[j] = None
                /\ \A k \in (j + 1)..Len(slots) : slots[k] # None
        ELSE 0

\* The first field, in the order of `idents`, whose slot is None; 0 if none.
first_missing(slots) ==
    IF \E j \in 1..Len(slots) : slots[j] = None
        THEN CHOOSE j \in 1..Len(slots) :
                /\ slots[j] = None
                /\ \A k \in 1..(j - 1) : slots[k] # None
        ELSE 0

\* Ok(#name { #(#idents: if let Some(x) = #idents { x } else {
\*     return Err(MissingValue(#indices, #field_str)) }),* })
result(name, fs, slots, pos) ==
    LET m == first_missing(slots)
    IN IF m # 0
          THEN Err(MissingValue(fs[m].idx, field_str(name, fs[m].name)), pos)
          ELSE Ok(<<name, [j \in 1..Len(fs) |-> slots[j][2]]>>, pos)

\* Ok(#name(r?)): the wrapper around the field's value, or r's error.
transparent_call(ty, r) ==
    IF r.ok THEN Ok(<<ty, <<r.val>>>>, r.pos) ELSE Err(r.err, r.pos)

\* make_transparent_impl, the generated decode:
\* Ok(#name(minicbor::Decode::decode(__d777)?))
transparent_decode(ty, inp, pos) ==
    Only({ transparent_call(ty, r) : r \in {Decode(Types[ty].fields[1].ty, inp, pos)} })

\* #statements #result, given what the statements left: their error, or
\* the result built from the slots.
statements_result(name, fs, st) ==
    IF st.ok THEN result(name, fs, st.val, st.pos) ELSE Err(st.err, st.pos)

\* on_struct, the generated decode: #statements #result
struct_decode(ty, inp, pos) ==
    IF Types[ty].transparent THEN transparent_decode(ty, inp, pos)
    ELSE Only({ statements_result(ty, Types[ty].fields, st) :
                    st \in {gen_statements(Types[ty].fields, Types[ty].enc, inp, pos)} })

\* check that takes any array header: `__d777.array()?;` without the
\* comparison with Some(2).
check_any_array(ty, inp, pos) ==
    IF Types[ty].index_only THEN Ok(<<>>, pos)
    ELSE LET a == array(inp, pos)
         IN IF ~a.ok THEN Err(a.err, a.pos) ELSE Ok(<<>>, a.pos)

\* on_enum, #check: if Some(2) != __d777.array()? { return Err(Message(..)) }
check(ty, inp, pos) ==
    IF Types[ty].index_only THEN Ok(<<>>, pos)
    ELSE LET a == array(inp, pos)
         IN IF ~a.ok THEN Err(a.err, a.pos)
            ELSE IF a.val # 2
                 THEN Err(Message("expected enum (2-element array)"), a.pos)
                 ELSE Ok(<<>>, a.pos)

\* The row of the variant whose index is n, 0 for the arm
\* `n => Err(UnknownVariant(n))`.
row(ty, n) ==
    LET vs == Types[ty].variants
    IN IF \E j \in 1..Len(vs) : vs[j].idx = n
          THEN CHOOSE j \in 1..Len(vs) :
                  /\ vs[j].idx = n
                  /\ \A k \in 1..(j - 1) : vs[k].idx # n
          ELSE 0

\* row_decode whose unit rows are all generated as `#idx => Ok(#name::#con)`.
row_decode_no_skip(ty, v, inp, pos) ==
    IF v.unit THEN Ok(<<field_str(ty, v.con), <<>>>>, pos)
    ELSE Only({ statements_result(field_str(ty, v.con), v.fields, st) :
                    st \in {gen_statements(v.fields, v.enc, inp, pos)} })

\* on_enum, one of #rows: a unit variant (with a skip unless index_only),
\* or #statements and the variant's constructor.
row_decode(ty, v, inp, pos) ==
    IF v.unit THEN
        IF Types[ty].index_only THEN Ok(<<field_str(ty, v.con), <<>>>>, pos)
        ELSE skip_on(inp, <<field_str(ty, v.con), <<>>>>, pos)
    ELSE Only({ statements_result(field_str(ty, v.con), v.fields, st) :
                    st \in {gen_statements(v.fields, v.enc, inp, pos)} })

\* on_enum, the generated decode: #check match __d777.u32()? { #rows .. }
enum_decode(ty, inp, pos) ==
    LET c == check(ty, inp, pos)
    IN IF ~c.ok THEN c
       ELSE LET n == u32(inp, c.pos)
            IN IF ~n.ok THEN Err(n.err, n.pos)
               ELSE IF row(ty, n.val) = 0 THEN Err(UnknownVariant(n.val), n.pos)
               ELSE row_decode(ty, Types[ty].variants[row(ty, n.val)], inp, n.pos)

\* T::decode(d).map(Some)
map_some(r) == IF r.ok THEN Ok(Some(r.val), r.pos) ELSE Err(r.err, r.pos)

\* impl Decode for Option<T>: null is None, anything else Some(T::decode).
option_decode(ty, inp, pos) ==
    LET dt == datatype(inp, pos)
    IN IF ~dt.ok THEN Err(dt.err, dt.pos)
       ELSE IF dt.val = "null" THEN skip_on(inp, None, pos)
       ELSE Only({ map_some(r) : r \in {Decode(Types[ty].of, inp, pos)} })

\* impl Decode for &str
str_decode(inp, pos) ==
    IF pos > Len(inp) THEN Err(EndOfInput, pos)
    ELSE IF inp[pos].t = "str" THEN Ok("str", pos + 1)
    ELSE Err(TypeMismatch, pos)

\* minicbor::Decode::decode, by the kind of the type named ty.
decode(ty, inp, pos) ==
    CASE Types[ty].kind = "u32"    -> u32(inp, pos)
      [] Types[ty].kind = "str"    -> str_decode(inp, pos)
      [] Types[ty].kind = "cow"    -> str_decode(inp, pos)
      [] Types[ty].kind = "option" -> option_decode(ty, inp, pos)
      [] Types[ty].kind = "struct" -> struct_decode(ty, inp, pos)
      [] Types[ty].kind = "enum"   -> enum_decode(ty, inp, pos)

\* minicbor::Decode::decode for the type named ty: the call is made with
\* the values of its arguments.
Decode(ty, inp, pos) ==
    Only({ decode(t, w, p) : t \in {ty}, w \in {inp}, p \in {pos} })

\* ------------------------------------------------------------------ encode
\* The values the round trip starts from.
U32Values == {0, 7}

RECURSIVE ValuesOf(_)
RECURSIVE FieldValues(_, _)
\* The tuples of values of the fields fs[j..].
FieldValues(fs, j) ==
    IF j > Len(fs) THEN { <<>> }
    ELSE { <<v>> \o rest : v \in ValuesOf(fs[j].ty), rest \in FieldValues(fs, j + 1) }

\* The values of the type named ty, as Decode returns them.
ValuesOf(ty) ==
    CASE Types[ty].kind = "u32"    -> U32Values
      [] Types[ty].kind = "str"    -> { "str" }
      [] Types[ty].kind = "cow"    -> { <<"Borrowed", "str">> }
      [] Types[ty].kind = "option" ->
            { None } \cup { Some(x) : x \in ValuesOf(Types[ty].of) }
      [] Types[ty].kind = "struct" ->
            { <<ty, vs>> : vs \in FieldValues(Types[ty].fields, 1) }
      [] Types[ty].kind = "enum"   ->
            UNION { { <<field_str(ty, Types[ty].variants[k].con), vs>> :
                        vs \in FieldValues(Types[ty].variants[k].fields, 1) } :
                    k \in 1..Len(Types[ty].variants) }

RECURSIVE Encode(_, _)

\* impl Encode for Option<T>: the inner value's encoding, or a null.
option_encode(ty, v) ==
    IF v # None THEN Encode(Types[ty].of, v[2]) ELSE <<TNull>>

\* The fields in ascending order of index, as positions of fs.
RECURSIVE ascending(_, _)
ascending(fs, left) ==
    IF left = {} THEN <<>>
    ELSE LET j == CHOOSE a \in left : \A b \in left : fs[a].idx <= fs[b].idx
         IN <<j>> \o ascending(fs, left \ {j})

\* The fields' values, each preceded by its index as the key under Map.
RECURSIVE encode_fields(_, _, _, _)
encode_fields(fs, enc, vals, order) ==
    IF order = <<>> THEN <<>>
    ELSE LET j == Head(order)
         IN (IF enc = "map" THEN <<TUint(fs[j].idx)>> ELSE <<>>)
            \o Encode(fs[j].ty, vals[j])
            \o encode_fields(fs, enc, vals, Tail(order))

\* The derived Encode of a struct or of a variant's fields: a header of
\* the number of fields, then the fields.
fields_encode(fs, enc, vals) ==
    <<IF enc = "map" THEN TMap(Len(fs)) ELSE TArr(Len(fs))>>
    \o encode_fields(fs, enc, vals, ascending(fs, 1..Len(fs)))

\* The derived Encode of a struct; a transparent one forwards to its field.
struct_encode(ty, v) ==
    IF Types[ty].transparent THEN Encode(Types[ty].fields[1].ty, v[2][1])
    ELSE fields_encode(Types[ty].fields, Types[ty].enc, v[2])

\* The derived Encode of an enum: [tag, payload], the bare tag if index_only.
enum_encode(ty, v) ==
    LET vs == Types[ty].variants
        k  == CHOOSE j \in 1..Len(vs) : field_str(ty, vs[j].con) = v[1]
    IN IF Types[ty].index_only THEN <<TUint(vs[k].idx)>>
       ELSE <<TArr(2), TUint(vs[k].idx)>>
            \o (IF vs[k].unit THEN <<TNull>>
                ELSE fields_encode(vs[k].fields, vs[k].enc, v[2]))

\* Encode::encode for a value v of the type named ty.
Encode(ty, v) ==
    CASE Types[ty].kind = "u32"    -> <<TUint(v)>>
      [] Types[ty].kind = "str"    -> <<TStr>>
      [] Types[ty].kind = "cow"    -> <<TStr>>
      [] Types[ty].kind = "option" -> option_encode(ty, v)
      [] Types[ty].kind = "struct" -> struct_encode(ty, v)
      [] Types[ty].kind = "enum"   -> enum_encode(ty, v)

\* ------------------------------------------------------------------ derive
\* derive_from without the test for a custom codec on the field.
derive_from_any_codec(ty) ==
    IF Types[ty].kind = "struct" /\ Types[ty].transparent /\ Len(Types[ty].fields) # 1
        THEN "#[cbor(transparent)] requires a struct with one field"
        ELSE ""

\* on_struct and make_transparent_impl at macro expansion: the compile
\* error a transparent struct is rejected with, "" when code is generated.
derive_from(ty) ==
    IF Types[ty].kind = "struct" /\ Types[ty].transparent THEN
        IF Len(Types[ty].fields) # 1
            THEN "#[cbor(transparent)] requires a struct with one field"
        ELSE IF Types[ty].fields[1].custom
            THEN "decode_with or with not allowed with #[cbor(transparent)]"
        ELSE ""
    ELSE ""

\* ------------------------------------------------------------------ inputs
\* Items, each a whole CBOR item as tokens.
UintItem(n)        == <<TUint(n)>>
NullItem           == <<TNull>>
StrItem            == <<TStr>>
EnumItem(n, p)     == <<TArr(2), TUint(n)>> \o p
InnerItem(e, m)    == <<TArr(2)>> \o e \o m
Pair(k, item)      == <<TUint(k)>> \o item
Sibling            == TUint(42)

\* The items the container of a decoded type is filled from.
ItemsFor(ty) ==
    CASE ty \in {"Rec", "Wrap", "Wrap0", "Wrap2", "WrapC"} ->
            { UintItem(7), NullItem, StrItem }
      [] ty = "Fwd" ->
            { EnumItem(99, NullItem), EnumItem(0, NullItem),
              UintItem(99), UintItem(1), NullItem, UintItem(7) }
      [] ty = "Req" ->
            { UintItem(7), NullItem, EnumItem(99, NullItem),
              EnumItem(1, <<TArr(1), TUint(5)>>), EnumItem(1, <<TArr(0)>>) }
      [] ty \in {"Deep", "Lax"} ->
            { InnerItem(EnumItem(0, NullItem), UintItem(3)),
              InnerItem(EnumItem(99, NullItem), UintItem(3)),
              NullItem, UintItem(7) }
      [] ty = "MRec" ->
            { Pair(1, UintItem(7)), Pair(1, UintItem(8)), Pair(5, StrItem),
              Pair(4, EnumItem(99, NullItem)),
              Pair(4, EnumItem(0, NullItem)), Pair(9, NullItem) }
      [] ty = "OO" ->
            { UintItem(7), NullItem }
      [] ty = "E" ->
            { UintItem(0), UintItem(1), UintItem(99), NullItem,
              <<TArr(1), TUint(5)>>, <<TMap(1), TUint(0), TUint(5)>> }
      [] ty = "K" ->
            { UintItem(0), UintItem(1), UintItem(99), NullItem }

\* The types a decode is derived for.
TopTypes == {"Rec", "Fwd", "Req", "Deep", "Lax", "MRec", "OO", "E", "K",
             "Wrap", "Wrap0", "Wrap2", "WrapC"}

\* How the items are framed: a definite container, an indefinite one with
\* its break, an indefinite one cut off before the break, a definite one
\* cut off before its last item, or no container at all.
Frames == {"arr", "arrI", "arrCut", "arrShort", "map", "mapI", "mapCut",
           "mapShort", "bare"}

FramesFor(ty) ==
    CASE ty = "MRec" -> {"map", "mapI", "mapCut", "mapShort", "arr"}
      [] ty = "K"    -> {"bare", "arr"}
      [] ty = "E"    -> {"arr", "arrI", "arrShort", "bare"}
      [] ty \in {"Wrap", "Wrap0", "Wrap2", "WrapC"} ->
                        {"arr", "arrShort", "map", "bare"}
      [] OTHER       -> {"arr", "arrI", "arrCut", "arrShort", "map"}

RECURSIVE Flat(_)
Flat(items) == IF items = <<>> THEN <<>> ELSE Head(items) \o Flat(Tail(items))

\* The sequences over S of length at most n.
RECURSIVE SeqsUpTo(_, _)
SeqsUpTo(S, n) ==
    IF n = 0 THEN { <<>> }
    ELSE LET shorter == SeqsUpTo(S, n - 1)
         IN shorter \cup { <<x>> \o q : x \in S, q \in { r \in shorter : Len(r) = n - 1 } }

\* The input bytes: the framed items, then the next sibling of the container
\* unless the input is cut off.
Wire(frame, items) ==
    CASE frame = "arr"      -> <<TArr(Len(items))>> \o Flat(items) \o <<Sibling>>
      [] frame = "arrI"     -> <<TArrI>> \o Flat(items) \o <<TBreak, Sibling>>
      [] frame = "arrCut"   -> <<TArrI>> \o Flat(items)
      [] frame = "arrShort" -> <<TArr(Len(items) + 1)>> \o Flat(items)
      [] frame = "map"      -> <<TMap(Len(items))>> \o Flat(items) \o <<Sibling>>
      [] frame = "mapI"     -> <<TMapI>> \o Flat(items) \o <<TBreak, Sibling>>
      [] frame = "mapCut"   -> <<TMapI>> \o Flat(items)
      [] frame = "mapShort" -> <<TMap(Len(items) + 1)>> \o Flat(items)
      [] frame = "bare"     -> Flat(items) \o <<Sibling>>

\* The types whose values are encoded and decoded again: the array-encoded
\* ones number their fields 0, 1, .. without a gap.
RoundTripTypes == {"Rec", "Fwd", "Deep", "MRec", "OO", "E", "K", "Wrap"}

\* ------------------------------------------------------------------ state
VARIABLES
    ty,      \* the type whose derived decode is called
    frame,   \* how the input was built: a frame of Frames, or "encoded"
    items,   \* the items framed (empty when the input was encoded)
    orig,    \* Some(v) when the input is the encoding of the value v
    inp,     \* the input, as tokens
    pos,     \* the Decoder's cursor
    pc,      \* where the call stands
    ret,     \* the statement the call returned from
    ctx,     \* the fields being filled: [name, fields, enc]
    i,       \* __i777, the loop's counter
    len,     \* __len777, -1 for an indefinite container
    slots,   \* the fields' Option<T> variables
    out,     \* the call's result
    value,   \* the value Encode::encode is called on
    todo,    \* the encode calls still to be made, next first
    written, \* what the Writer has taken, as tokens
    cap,     \* the writes the Writer takes before it fails, -1 for all
    eres     \* the result of the encode call

\* The state of a decode and the state of an encode.
dvars == <<ty, frame, items, orig, inp, pos, pc, ret, ctx, i, len, slots, out>>
evars == <<value, todo, written, cap, eres>>
vars  == <<ty, frame, items, orig, inp, pos, pc, ret, ctx, i, len, slots, out,
           value, todo, written, cap, eres>>

Pending == Err(<<"pending">>, 0)

Ctx(name, fs, enc) == [name |-> name, fields |-> fs, enc |-> enc]

StartState ==
    /\ pos = 1
    /\ pc = "derive"
    /\ ret = ""
    /\ ctx = Ctx(ty, Types[ty].fields, Types[ty].enc)
    /\ i = 0
    /\ len = 0
    /\ slots = <<>>
    /\ out = Pending

\* A decode of arbitrary framed items.
InitFramed ==
    /\ ty \in TopTypes
    /\ frame \in FramesFor(ty)
    /\ items \in SeqsUpTo(ItemsFor(ty), MaxItems)
    /\ orig = None
    /\ inp = Wire(frame, items)
    /\ StartState

\* A decode of what Encode wrote for a value.
InitEncoded ==
    /\ ty \in RoundTripTypes
    /\ frame = "encoded"
    /\ items = <<>>
    /\ \E v \in ValuesOf(ty) :
          /\ orig = Some(v)
          /\ inp = Encode(ty, v) \o <<Sibling>>
    /\ StartState

\* No encode call is in progress.
NoEncode ==
    /\ value = <<"unit">>
    /\ todo = <<>>
    /\ written = <<>>
    /\ cap = -1
    /\ eres = "idle"

Init == (InitFramed \/ InitEncoded) /\ NoEncode

Return(at, r) ==
    /\ pc' = "done"
    /\ ret' = at
    /\ out' = r
    /\ pos' = r.pos

\* The macro expands: code is generated, or the type is rejected.
Derive ==
    /\ pc = "derive"
    /\ IF derive_from(ty) = ""
          THEN pc' = "decode" /\ out' = out
          ELSE pc' = "rejected" /\ out' = Err(<<"compile_error", derive_from(ty)>>, 0)
    /\ UNCHANGED <<ty, frame, items, orig, inp, pos, ret, ctx, i, len, slots>>
    /\ UNCHANGED evars

\* A transparent struct forwards the call.
Forward ==
    /\ pc = "decode"
    /\ Types[ty].kind = "struct" /\ Types[ty].transparent
    /\ \E r \in {transparent_decode(ty, inp, pos)} : Return("forward", r)
    /\ UNCHANGED <<ty, frame, items, orig, inp, ctx, i, len, slots>>
    /\ UNCHANGED evars

\* An enum's #check.
Check ==
    /\ pc = "decode"
    /\ Types[ty].kind = "enum"
    /\ LET c == check(ty, inp, pos)
       IN IF c.ok
             THEN pc' = "tag" /\ pos' = c.pos /\ UNCHANGED <<ret, out>>
             ELSE Return("check", c)
    /\ UNCHANGED <<ty, frame, items, orig, inp, ctx, i, len, slots>>
    /\ UNCHANGED evars

\* An enum's match __d777.u32()? { .. }: an error, a unit variant, or on to
\* the statements of a variant with fields.
Tag ==
    /\ pc = "tag"
    /\ LET n == u32(inp, pos)
           k == row(ty, n.val)
           v == Types[ty].variants[k]
       IN IF ~n.ok THEN Return("tag", Err(n.err, n.pos)) /\ ctx' = ctx
          ELSE IF k = 0 THEN Return("tag", Err(UnknownVariant(n.val), n.pos)) /\ ctx' = ctx
          ELSE IF v.unit
               THEN /\ \E r \in {row_decode(ty, v, inp, n.pos)} : Return("row", r)
                    /\ ctx' = ctx
          ELSE /\ pc' = "header"
               /\ pos' = n.pos
               /\ ctx' = Ctx(field_str(ty, v.con), v.fields, v.enc)
               /\ UNCHANGED <<ret, out>>
    /\ UNCHANGED <<ty, frame, items, orig, inp, i, len, slots>>
    /\ UNCHANGED evars

\* A struct's statements start.
Struct ==
    /\ pc = "decode"
    /\ Types[ty].kind = "struct" /\ ~Types[ty].transparent
    /\ pc' = "header"
    /\ UNCHANGED <<ty, frame, items, orig, inp, pos, ret, ctx, i, len, slots, out>>
    /\ UNCHANGED evars

\* The slots are declared and the container's header is read.
Header ==
    /\ pc = "header"
    /\ LET h == header(ctx.enc, inp, pos)
       IN IF ~h.ok THEN Return("header", Err(h.err, h.pos)) /\ UNCHANGED <<i, len, slots>>
          ELSE /\ pc' = IF h.val >= 0 THEN "definite" ELSE "indefinite"
               /\ pos' = h.pos
               /\ len' = h.val
               /\ i' = 0
               /\ slots' = inits(ctx.fields)
               /\ UNCHANGED <<ret, out>>
    /\ UNCHANGED <<ty, frame, items, orig, inp, ctx>>
    /\ UNCHANGED evars

\* One iteration's body ran: on to the next, or out with its error.
Iterate(st) ==
    IF st.ok
        THEN /\ slots' = st.val
             /\ pos' = st.pos
             /\ i' = i + 1
             /\ UNCHANGED <<pc, ret, out>>
        ELSE Return("loop", Err(st.err, st.pos)) /\ UNCHANGED <<i, slots>>

\* for __i777 in 0 .. __len777: one iteration, or the end of the loop.
Definite ==
    /\ pc = "definite"
    /\ IF i < len
          THEN \E st \in {body(ctx.fields, ctx.enc, i, inp, Ok(slots, pos))} :
                  Iterate(st)
          ELSE pc' = "result" /\ UNCHANGED <<pos, ret, out, i, slots>>
    /\ UNCHANGED <<ty, frame, items, orig, inp, ctx, len>>
    /\ UNCHANGED evars

\* while Type::Break != __d777.datatype()?: one iteration.
Indefinite ==
    /\ pc = "indefinite"
    /\ LET dt == datatype(inp, pos)
       IN /\ ~(dt.ok /\ dt.val = "brk")
          /\ IF ~dt.ok THEN Return("loop", Err(dt.err, dt.pos)) /\ UNCHANGED <<i, slots>>
             ELSE \E st \in {body(ctx.fields, ctx.enc, i, inp, Ok(slots, pos))} :
                     Iterate(st)
    /\ UNCHANGED <<ty, frame, items, orig, inp, ctx, len>>
    /\ UNCHANGED evars

\* The loop sees the break and skips it.
Break ==
    /\ pc = "indefinite"
    /\ datatype(inp, pos) = Ok("brk", pos)
    /\ \E st \in {loop_exit(inp, Ok(slots, pos))} :
          IF st.ok THEN pc' = "result" /\ pos' = st.pos /\ UNCHANGED <<ret, out>>
          ELSE Return("break", Err(st.err, st.pos))
    /\ UNCHANGED <<ty, frame, items, orig, inp, ctx, i, len, slots>>
    /\ UNCHANGED evars

\* The value is built from the slots, or a slot is missing.
Result ==
    /\ pc = "result"
    /\ \E r \in {result(ctx.name, ctx.fields, slots, pos)} : Return("result", r)
    /\ UNCHANGED <<ty, frame, items, orig, inp, ctx, i, len, slots>>
    /\ UNCHANGED evars

Next ==
    \/ Derive
    \/ Forward
    \/ Check
    \/ Tag
    \/ Struct
    \/ Header
    \/ Definite
    \/ Indefinite
    \/ Break
    \/ Result

Spec == Init /\ [][Next]_vars

\* The call runs to its end: nothing but the call itself can stop it.
LiveSpec == Spec /\ WF_vars(Next)

Done == pc \in {"done", "rejected"}

\* The stepwise call and the generated function agree on every input.
StepwiseIsDecode ==
    pc = "done" => out = Decode(ty, inp, 1)

\* ------------------------------------------------------------------ Encoder
\* Write::write_all through the Encoder: the Writer of the model takes c
\* tokens and fails on the next one; c = -1 takes them all.
RECURSIVE emit(_, _, _)
emit(w, c, toks) ==
    IF toks = <<>> THEN [ok |-> TRUE, out |-> w]
    ELSE IF c # -1 /\ Len(w) >= c THEN [ok |-> FALSE, out |-> w]
    ELSE emit(Append(w, Head(toks)), c, Tail(toks))

\* What one Encode impl does: the heads it writes itself, then the values
\* it calls encode on, in order.
Call(toks, next) == [toks |-> toks, next |-> next]

\* encode_basic!: e.u32(*self)
encode_basic(v) == Call(<<TUint(v[2])>>, <<>>)

\* impl Encode for str: e.str(self)
encode_str(v) == Call(<<TStr>>, <<>>)

\* impl Encode for (): e.array(0)
encode_unit(v) == Call(<<TArr(0)>>, <<>>)

\* impl Encode for Option<T>: x.encode(e) or e.null()
encode_option(v) ==
    IF v[2] # None THEN Call(<<>>, <<v[2][2]>>) ELSE Call(<<TNull>>, <<>>)

\* impl Encode for Result<T, E>: e.array(2), then e.u32(0) or e.u32(1) and
\* the value.
encode_result(v) ==
    Call(<<TArr(2), TUint(IF v[2] = "ok" THEN 0 ELSE 1)>>, <<v[3]>>)

\* encode_sequential!: e.array(self.len()), then every x in self.
encode_sequential(v) == Call(<<TArr(Len(v[2]))>>, v[2])

\* encode_arrays!: e.array($n), then every x in self.
encode_arrays(v) == Call(<<TArr(Len(v[2]))>>, v[2])

\* encode_tuples!: e.array($len), then .encode(&self.$idx) for every $idx.
encode_tuples(v) == Call(<<TArr(Len(v[2]))>>, v[2])

\* for (k, v) in self { k.encode(e)?; v.encode(e)? }
RECURSIVE entries(_)
entries(ps) ==
    IF ps = <<>> THEN <<>> ELSE <<Head(ps)[1], Head(ps)[2]>> \o entries(Tail(ps))

\* encode_map with the loop writing the values only.
encode_map_values_only(v) ==
    Call(<<TMap(Len(v[2]))>>, [k \in 1..Len(v[2]) |-> v[2][k][2]])

\* impl Encode for HashMap / BTreeMap: e.map(self.len()), then every key
\* and value.
encode_map(v) == Call(<<TMap(Len(v[2]))>>, entries(v[2]))

\* The values that are encoded: leaves, containers of leaves, containers of
\* containers.  A value is <<kind, ..>>.
EncLeaves == { <<"u32", 0>>, <<"u32", 7>>, <<"str">>, <<"unit">> }
EncSmall  == { <<"u32", 7>>, <<"str">>, <<"opt", None>> }
EncKeys   == { <<"u32", 0>>, <<"str">> }

\* The maps over keys K and values V of at most n entries, in iteration
\* order: no key twice.
MapsOf(K, V, n) ==
    { ps \in SeqsUpTo({ <<k, x>> : k \in K, x \in V }, n) :
        \A a, b \in 1..Len(ps) : a # b => ps[a][1] # ps[b][1] }

\* Option, Result and the containers over the values S.
Over(S) ==
    { <<"opt", Some(x)>> : x \in S }
    \cup { <<"res", r, x>> : r \in {"ok", "err"}, x \in S }
    \cup { <<"seq", xs>> : xs \in SeqsUpTo(S, MaxElems) }
    \cup { <<"arr", xs>> : xs \in SeqsUpTo(S, MaxElems) }
    \cup { <<"tup", xs>> : xs \in SeqsUpTo(S, MaxElems) \ { <<>> } }
    \cup { <<"map", ps>> : ps \in MapsOf(EncKeys, S, MaxElems) }

EncNested ==
    { <<"seq", << <<"u32", 7>>, <<"str">> >> >>,
      <<"opt", Some(<<"opt", None>>)>>,
      <<"res", "err", <<"str">>>>,
      <<"map", << << <<"u32", 0>>, <<"str">> >> >> >>,
      <<"tup", << <<"u32", 7>> >> >> }

EncValues ==
    EncLeaves \cup { <<"opt", None>> } \cup Over(EncLeaves \cup EncSmall) \cup Over(EncNested)

\* An encode call on a value, with a Writer that fails after cap writes or
\* not at all; no decode is in progress.
EncInit ==
    /\ ty = "Rec" /\ frame = "none" /\ items = <<>> /\ orig = None /\ inp = <<>>
    /\ pos = 1 /\ pc = "encode" /\ ret = ""
    /\ ctx = Ctx("", <<>>, "")
    /\ i = 0 /\ len = 0 /\ slots = <<>> /\ out = Pending
    /\ value \in EncValues
    /\ todo = <<value>>
    /\ written = <<>>
    /\ cap \in {-1} \cup 0..(4 * MaxElems)
    /\ eres = "running"

\* The next encode call is on a value of this kind.
Calls(kind) == eres = "running" /\ todo # <<>> /\ Head(todo)[1] = kind

\* One impl runs: its own writes, each with `?`, then its calls are next.
Encoding(r) ==
    /\ \E w \in {emit(written, cap, r.toks)} :
          /\ written' = w.out
          /\ IF w.ok THEN todo' = r.next \o Tail(todo) /\ eres' = eres
                     ELSE todo' = todo /\ eres' = "err"
    /\ UNCHANGED <<value, cap>>
    /\ UNCHANGED dvars

EncodeBasic      == Calls("u32")  /\ Encoding(encode_basic(Head(todo)))
EncodeStr        == Calls("str")  /\ Encoding(encode_str(Head(todo)))
EncodeUnit       == Calls("unit") /\ Encoding(encode_unit(Head(todo)))
EncodeOption     == Calls("opt")  /\ Encoding(encode_option(Head(todo)))
EncodeResult     == Calls("res")  /\ Encoding(encode_result(Head(todo)))
EncodeSequential == Calls("seq")  /\ Encoding(encode_sequential(Head(todo)))
EncodeArrays     == Calls("arr")  /\ Encoding(encode_arrays(Head(todo)))
EncodeTuples     == Calls("tup")  /\ Encoding(encode_tuples(Head(todo)))
EncodeMap        == Calls("map")  /\ Encoding(encode_map(Head(todo)))

\* Every call has returned: Ok(()).
EncodeOk ==
    /\ eres = "running" /\ todo = <<>>
    /\ eres' = "ok"
    /\ UNCHANGED <<value, todo, written, cap>>
    /\ UNCHANGED dvars

EncNext ==
    \/ EncodeBasic
    \/ EncodeStr
    \/ EncodeUnit
    \/ EncodeOption
    \/ EncodeResult
    \/ EncodeSequential
    \/ EncodeArrays
    \/ EncodeTuples
    \/ EncodeMap
    \/ EncodeOk

EncSpec == EncInit /\ [][EncNext]_vars

\* ------------------------------------------------------------------ claims
\* The call returned.
Finished == pc = "done"

\* The cursor is on the next sibling of the item the call was given.
OnSibling == pos = Len(inp) /\ inp[pos] = Sibling

\* A loop iteration is about to run its body.
InBody ==
    \/ pc = "definite" /\ i < len
    \/ pc = "indefinite" /\ pos <= Len(inp) /\ inp[pos].t # "brk"

\* In the iteration about to run: what the body matches on, the field it
\* selects (0 if none) and where that field's value starts.
Scrutinee   == scrutinee(ctx.enc, i, inp, pos)
Selected    == IF Scrutinee.ok THEN arm(ctx.fields, Scrutinee.val) ELSE 0
ValueStart  == Scrutinee.pos

\* The item at p is a value of the enum e with a tag none of its variants
\* has: [tag, payload], or the bare tag if e is index_only.
UnknownEnumAt(e, p) ==
    IF Types[e].index_only
        THEN /\ p <= Len(inp)
             /\ inp[p].t = "uint"
             /\ row(e, inp[p].v) = 0
        ELSE /\ p + 2 <= Len(inp)
             /\ inp[p] = TArr(2)
             /\ inp[p + 1].t = "uint"
             /\ row(e, inp[p + 1].v) = 0

\* The tag of the enum value at p.
TagAt(e, p) == IF Types[e].index_only THEN inp[p].v ELSE inp[p + 1].v

\* Where the item that starts at p ends.
ItemEnd(p) == skip(inp, p).pos

\* The field is an Option that directly holds an enum.
OptionOfEnum(f) ==
    /\ Types[f.ty].kind = "option"
    /\ Types[Types[f.ty].of].kind = "enum"

\* ---- C1
\* C1: decoding what Encode wrote for any value v of a type of the model
\* (array and map structs, enums, nested structs, Options, an Option of an
\* Option, optional fields left None) succeeds and returns v.
C1_RoundTrip ==
    (Finished /\ frame = "encoded") => (out.ok /\ out.val = orig[2])

\* ---- C2
\* C2: when the body decodes a field of type Option<Enum> and the value on
\* the wire has a tag no variant has, the field stays None, the loop goes
\* on, and the cursor has moved over exactly that one item: the array
\* [tag, payload], or the bare tag of an index_only enum.
C2_UnknownVariantSkipsOneItem ==
    [][ ( /\ InBody
          /\ Selected # 0
          /\ OptionOfEnum(ctx.fields[Selected])
          /\ UnknownEnumAt(Types[ctx.fields[Selected].ty].of, ValueStart)
          /\ skip(inp, ValueStart).ok )
        => ( /\ pc' = pc
             /\ slots' = slots
             /\ pos' = ItemEnd(ValueStart) ) ]_vars

\* ---- C3
\* The items of a definite container that no field of the type takes: the
\* positions of an array, the keys of a map, that are no field's index.
Unknowns ==
    IF frame = "arr"
        THEN { n \in 1..Len(items) : arm(Types[ty].fields, n - 1) = 0 }
        ELSE { n \in 1..Len(items) :
                 Head(items[n]).t = "uint" /\ arm(Types[ty].fields, Head(items[n]).v) = 0 }

\* The container without its unknown items: an array keeps its positions
\* (a null stands in), a map loses the pairs.
RECURSIVE WithoutUnknowns(_)
WithoutUnknowns(n) ==
    IF n > Len(items) THEN <<>>
    ELSE (IF n \notin Unknowns THEN <<items[n]>>
          ELSE IF frame = "arr" THEN <<NullItem>> ELSE <<>>)
         \o WithoutUnknowns(n + 1)

\* A struct of the model is decoded from a definite container of its own
\* encoding.
DefiniteStruct ==
    /\ Types[ty].kind = "struct" /\ ~Types[ty].transparent
    /\ frame = (IF Types[ty].enc = "array" THEN "arr" ELSE "map")

\* C3: a struct decoded from a definite array (map) of L items (pairs),
\* some of them at positions (keys) no field has, gets the field values it
\* would get without those items, and the cursor ends on the next sibling
\* of the container: header and L items consumed, each unknown one skipped
\* once.
C3_UnknownFieldsSkipped ==
    (Finished /\ DefiniteStruct /\ Unknowns # {}) =>
        LET plain == Decode(ty, Wire(frame, WithoutUnknowns(1)), 1)
        IN /\ out.ok = plain.ok
           /\ out.ok => (out.val = plain.val /\ OnSibling)

\* ---- C4
\* The qualified names the generated code reports, written out.
QualifiedNames ==
    { <<"Rec", 0, "Rec::x">>, <<"Fwd", 2, "Fwd::n">>, <<"Req", 0, "Req::a">>,
      <<"Req", 2, "Req::e">>, <<"Deep", 1, "Deep::n">>, <<"MRec", 1, "MRec::x">>,
      <<"MRec", 5, "MRec::s">>, <<"OO", 1, "OO::x">>, <<"E", 0, "E::B::v">> }

\* The required fields whose slot is still empty.
Unfilled ==
    { j \in 1..Len(slots) : ~is_option(ctx.fields[j].ty) /\ slots[j] = None }

TopTag == IF Types[ty].index_only THEN 1 ELSE 2

\* The top-level call is an enum's and its input is an enum value with an
\* unknown tag.
TopUnknown == Types[ty].kind = "enum" /\ UnknownEnumAt(ty, 1)

\* C5: an enum whose tag n no variant has fails with UnknownVariant(n); at
\* top level that is the call's result, and from a required field of enum
\* type it is the enclosing struct's result, which reads no further.
C5_UnknownVariantFatal ==
    /\ []( (Finished /\ TopUnknown) =>
              (~out.ok /\ out.err = <<"UnknownVariant", inp[TopTag].v>>
                       /\ pos = TopTag + 1) )
    /\ [][ ( /\ InBody
             /\ Selected # 0
             /\ ~is_option(ctx.fields[Selected].ty)
             /\ Types[ctx.fields[Selected].ty].kind = "enum"
             /\ UnknownEnumAt(ctx.fields[Selected].ty, ValueStart) )
           => ( /\ pc' = "done"
                /\ ~out'.ok
                /\ out'.err = <<"UnknownVariant",
                                TagAt(ctx.fields[Selected].ty, ValueStart)>>
                /\ slots' = slots
                /\ i' = i ) ]_vars

\* A required enum field with tag 99 ended the struct's decode.
C5_Witness ==
    /\ Finished /\ ty = "Req" /\ ret = "loop" /\ i = 2
    /\ out.err = <<"UnknownVariant", 99>>

\* ---- C6
\* The indefinite container holding the same items, closed by a break.
Indefinite_(f) == IF f = "arr" THEN "arrI" ELSE "mapI"

\* C6: a struct decoded from a definite array (map) and from the indefinite
\* array (map) of the same items followed by a break give the same value or
\* the same error, and after a success the cursor is on the next sibling of
\* the container in both, the break consumed.
C6_IndefiniteAsDefinite ==
    (Finished /\ DefiniteStruct) =>
        LET wire == Wire(Indefinite_(frame), items)
            twin == Decode(ty, wire, 1)
        IN /\ out.ok = twin.ok
           /\ out.ok => /\ out.val = twin.val
                        /\ OnSibling
                        /\ twin.pos = Len(wire)
           /\ ~out.ok => out.err = twin.err

\* ---- C7
\* C7: an enum that is not index_only reads an array header first and,
\* unless it is a definite array of 2 elements, fails with the Message
\* "expected enum (2-element array)" before any tag is read; an index_only
\* enum reads no header and reads the tag at once.
C7_EnumFraming ==
    /\ (Finished /\ Types[ty].kind = "enum" /\ ~Types[ty].index_only
          /\ inp[1].t \in {"arr", "arrI"} /\ inp[1] # TArr(2)) =>
            /\ out = Err(<<"Message", "expected enum (2-element array)">>, 2)
            /\ ret = "check"
    /\ (Finished /\ ret = "check" /\ out.err[1] = "Message") =>
            (inp[1].t \in {"arr", "arrI"} /\ inp[1] # TArr(2))
    /\ (pc = "tag" /\ ~Types[ty].index_only) => (pos = 2 /\ inp[1] = TArr(2))
    /\ (pc = "tag" /\ Types[ty].index_only) => pos = 1

\* An indefinite array holding a tag and a payload was rejected.
C7_Witness ==
    /\ Finished /\ ty = "E" /\ frame = "arrI" /\ Len(items) = 2
    /\ items[1] = UintItem(0)
    /\ out.err = <<"Message", "expected enum (2-element array)">>

\* ---- C8
\* The input is an indefinite container of the type's own encoding that
\* ends before any break.
CutOff ==
    /\ Types[ty].kind = "struct" /\ ~Types[ty].transparent
    /\ frame = (IF Types[ty].enc = "array" THEN "arrCut" ELSE "mapCut")

\* The same items in the same indefinite container, closed by a break.
Closed == Decode(ty, Wire(IF frame = "arrCut" THEN "arrI" ELSE "mapI", items), 1)

\* C8: the decode of a finite input ends; every loop iteration that does
\* not end the call moves the cursor forward; on an indefinite array or map
\* that ends before a break the call ends inside the loop with an error, and
\* where the items themselves decode (the container closed by a break gives
\* a value) that error is end-of-input.
C8_Terminates ==
    /\ <>(pc \in {"done", "rejected"})
    /\ [][ (pc \in {"definite", "indefinite"} /\ pc' = pc) => pos' > pos ]_vars
    /\ []( (Finished /\ CutOff) =>
              /\ ~out.ok
              /\ ret = "loop"
              /\ Closed.ok => (out.err = EndOfInput /\ pos = Len(inp) + 1) )

\* An indefinite array without a break ran out of input after two items.
C8_Witness ==
    /\ Finished /\ ty = "Rec" /\ frame = "arrCut" /\ Len(items) = 2
    /\ Closed.ok
    /\ i = 2 /\ pos = Len(inp) + 1
    /\ out.err = EndOfInput

\* ---- C9
\* C9: an UnknownVariant error is turned into "field absent, skip one item,
\* go on" only for a field that is an Option directly holding the enum;
\* raised from within any other field it makes the struct's decode fail.
C9_RecoveryOnlyForOptionOfEnum ==
    [][ ( /\ InBody
          /\ Selected # 0
          /\ ~OptionOfEnum(ctx.fields[Selected])
          /\ ~decode_fn(ctx.fields[Selected], inp, ValueStart).ok
          /\ decode_fn(ctx.fields[Selected], inp, ValueStart).err[1] = "UnknownVariant" )
        => ( pc' = "done" /\ ~out'.ok /\ out'.err[1] = "UnknownVariant" ) ]_vars

\* ---- C10
\* The transparent structs the macro has to reject.
BadTransparent ==
    /\ Types[ty].kind = "struct" /\ Types[ty].transparent
    /\ (Len(Types[ty].fields) # 1 \/ Types[ty].fields[1].custom)

\* C10: the decode of a transparent struct moves the cursor as the decode
\* of its field's type does, reads no header of its own, returns the
\* wrapper around that value or that very error; a transparent struct with
\* no or several fields, or with a custom decode function on its field, is
\* rejected when the macro expands and is never decoded.
C10_TransparentForwards ==
    /\ (Finished /\ ret = "forward") =>
          LET r == Decode(Types[ty].fields[1].ty, inp, 1)
          IN /\ out.pos = r.pos /\ pos = r.pos
             /\ out.ok = r.ok
             /\ r.ok => out.val = <<ty, <<r.val>>>>
             /\ ~r.ok => out.err = r.err
    /\ BadTransparent => (pc \in {"derive", "rejected"} /\ ret = "")
    /\ pc = "rejected" => (BadTransparent /\ out.err[1] = "compile_error")
    /\ (Types[ty].kind = "struct" /\ Types[ty].transparent /\ Finished)
          => ret = "forward"

\* A transparent wrapper of Rec returned the wrapped Rec and stopped on the
\* next sibling.
C10_Witness ==
    /\ Finished /\ ty = "Wrap" /\ frame = "arr"
    /\ out.ok /\ out.val = <<"Wrap", << <<"Rec", <<7, None>>>> >>>>
    /\ OnSibling

\* ---- C11
\* The unit variants of the model, by enum and tag.
UnitVariants == { <<"E", 0, "E::A">>, <<"K", 0, "K::P">>, <<"K", 1, "K::Q">> }

\* The top-level call is an enum's, its framing was accepted and its tag is
\* that of a unit variant.
UnitTag ==
    /\ Types[ty].kind = "enum"
    /\ Types[ty].index_only \/ inp[1] = TArr(2)
    /\ TopTag <= Len(inp)
    /\ inp[TopTag].t = "uint"
    /\ \E u \in UnitVariants : u[1] = ty /\ u[2] = inp[TopTag].v

\* C11: on the tag of a unit variant an enum that is not index_only steps
\* over exactly one payload item, however long, and yields the variant, so
\* that the whole [tag, payload] is consumed; with no payload left the skip
\* fails and its error is the result; an index_only enum yields the variant
\* with the cursor right after the tag.
C11_UnitVariantPayload ==
    /\ (Finished /\ UnitTag) => ret = "row"
    /\ (Finished /\ ret = "row") => UnitTag
    /\ (Finished /\ ret = "row" /\ ~Types[ty].index_only /\ frame = "arr") =>
            /\ out.ok
            /\ <<ty, inp[TopTag].v, out.val[1]>> \in UnitVariants
            /\ out.val[2] = <<>>
            /\ pos = 3 + Len(items[2])
            /\ OnSibling
    /\ (Finished /\ ret = "row" /\ ~Types[ty].index_only /\ frame = "arrShort") =>
            /\ out = Err(EndOfInput, 3)
            /\ pos = 3
    /\ (Finished /\ ret = "row" /\ ~Types[ty].index_only /\ frame = "encoded") =>
            /\ out.ok
            /\ inp[3] = TNull
            /\ OnSibling
    /\ (Finished /\ ret = "row" /\ ~Types[ty].index_only) =>
            frame \in {"arr", "arrShort", "encoded"}
    /\ (Finished /\ ret = "row" /\ Types[ty].index_only) =>
            /\ out.ok
            /\ <<ty, inp[TopTag].v, out.val[1]>> \in UnitVariants
            /\ out.val[2] = <<>>
            /\ pos = TopTag + 1

\* The unit variant E::A came with an array as its payload, which was
\* stepped over whole.
C11_Witness ==
    /\ Finished /\ ty = "E" /\ frame = "arr"
    /\ items = << UintItem(0), <<TArr(1), TUint(5)>> >>
    /\ out.ok /\ out.val = <<"E::A", <<>>>>
    /\ OnSibling

\* ---- C12
\* A struct of the model is decoded from a container of its own encoding,
\* definite or indefinite and closed by a break.
OwnContainer ==
    /\ Types[ty].kind = "struct" /\ ~Types[ty].transparent
    /\ frame \in (IF Types[ty].enc = "array" THEN {"arr", "arrI"} ELSE {"map", "mapI"})

\* The container holds no item at the index of the field f: the array has
\* no position f.idx, the map no pair with the key f.idx.
Absent(f) ==
    IF Types[ty].enc = "array"
        THEN Len(items) <= f.idx
        ELSE \A n \in 1..Len(items) : Head(items[n]) # TUint(f.idx)

\* C12: the slot of an Option field starts as Some(None) and that of a
\* required field as None; a container that holds no item at the index of
\* an Option field decodes to a value with that field None whenever every
\* required field was filled, and MissingValue is never reported for an
\* Option field.
C12_OptionalAbsent ==
    /\ (pc \in {"definite", "indefinite"} /\ i = 0) =>
            \A j \in 1..Len(ctx.fields) :
                slots[j] = (IF Types[ctx.fields[j].ty].kind = "option"
                               THEN <<"some", <<"none">>>> ELSE <<"none">>)
    /\ (Finished /\ ret = "result" /\ Unfilled = {}) => out.ok
    /\ (Finished /\ ~out.ok /\ out.err[1] = "MissingValue") =>
            \A j \in 1..Len(ctx.fields) :
                ctx.fields[j].idx = out.err[2] =>
                    Types[ctx.fields[j].ty].kind # "option"
    /\ (Finished /\ OwnContainer /\ out.ok) =>
            \A j \in 1..Len(Types[ty].fields) :
                (is_option(Types[ty].fields[j].ty) /\ Absent(Types[ty].fields[j]))
                    => out.val[2][j] = None

\* ---- C13
\* The pairs of the container whose key is k, by position.
WithKey(k) == { n \in 1..Len(items) : Head(items[n]) = TUint(k) }

\* The last position of a non-empty set of positions.
Last(S) == CHOOSE n \in S : \A m \in S : m <= n

\* The pairs whose key is 4 and whose value is an E this schema knows.
KnownE == { n \in WithKey(4) : items[n] = Pair(4, EnumItem(0, NullItem)) }

\* C13: in map encoding a key that comes more than once is no error: the
\* decode of MRec succeeds as soon as the keys of its required fields are
\* there, each field has the value of the last pair with its key that
\* decoded (a pair whose enum is unknown leaves the earlier value), and
\* the loop ran once per pair, leaving the cursor on the next sibling.
C13_DuplicateKeys ==
    (Finished /\ ty = "MRec" /\ frame \in {"map", "mapI"}) =>
        /\ ret = "result"
        /\ i = Len(items)
        /\ OnSibling
        /\ out.ok <=> (WithKey(1) # {} /\ WithKey(5) # {})
        /\ out.ok =>
              /\ out.val[2][1] = items[Last(WithKey(1))][2].v
              /\ out.val[2][2] = (IF KnownE = {} THEN None
                                              ELSE Some(<<"E::A", <<>>>>))
              /\ out.val[2][3] = <<"Borrowed", "str">>

\* The key 1 came twice and the second value is the field's.
C13_Witness ==
    /\ Finished /\ ty = "MRec" /\ frame = "map"
    /\ items = << Pair(1, UintItem(7)), Pair(1, UintItem(8)), Pair(5, StrItem) >>
    /\ out.ok /\ out.val[2][1] = 8

\* ---- C14
\* The head the encoding of the value v has to start with: a container its
\* header with the number of its elements or entries, a Result the header
\* of a 2-element array, an Option its payload's head or a null.
RECURSIVE Lead(_)
Lead(v) ==
    CASE v[1] = "u32"  -> TUint(v[2])
      [] v[1] = "str"  -> TStr
      [] v[1] = "unit" -> TArr(0)
      [] v[1] = "opt"  -> IF v[2] = None THEN TNull ELSE Lead(v[2][2])
      [] v[1] = "res"  -> TArr(2)
      [] v[1] = "map"  -> TMap(Len(v[2]))
      [] OTHER         -> TArr(Len(v[2]))

\* Where the k-th of the items that start at p begins.
RECURSIVE ItemPos(_, _)
ItemPos(p, k) ==
    IF k = 1 THEN p ELSE ItemPos(skip(written, p).pos, k - 1)

\* What was written is exactly one item: its header and, for every
\* container in it, as many items as the header says.
OneItem == skip(written, 1) = Ok(<<>>, Len(written) + 1)

\* What the value writes to a Writer that never fails.
RECURSIVE Unlimited(_)
Unlimited(calls) ==
    IF calls = <<>> THEN <<>>
    ELSE LET v == Head(calls)
             r == CASE v[1] = "u32"  -> encode_basic(v)
                    [] v[1] = "str"  -> encode_str(v)
                    [] v[1] = "unit" -> encode_unit(v)
                    [] v[1] = "opt"  -> encode_option(v)
                    [] v[1] = "res"  -> encode_result(v)
                    [] v[1] = "seq"  -> encode_sequential(v)
                    [] v[1] = "arr"  -> encode_arrays(v)
                    [] v[1] = "tup"  -> encode_tuples(v)
                    [] v[1] = "map"  -> encode_map(v)
         IN r.toks \o Unlimited(r.next \o Tail(calls))

\* The header and the items of what was written are those of the value.
AsValue ==
    CASE value[1] \in {"seq", "arr", "tup"} ->
            /\ written[1] = TArr(Len(value[2]))
            /\ \A k \in 1..Len(value[2]) :
                  written[ItemPos(2, k)] = Lead(value[2][k])
      [] value[1] = "map" ->
            /\ written[1] = TMap(Len(value[2]))
            /\ \A k \in 1..Len(value[2]) :
                  /\ written[ItemPos(2, 2 * k - 1)] = Lead(value[2][k][1])
                  /\ written[ItemPos(2, 2 * k)] = Lead(value[2][k][2])
      [] value[1] = "res" ->
            /\ written[1] = TArr(2)
            /\ written[2] = TUint(IF value[2] = "ok" THEN 0 ELSE 1)
            /\ written[3] = Lead(value[3])
      [] value[1] = "opt" ->
            IF value[2] = None THEN written = <<TNull>>
            ELSE written[1] = Lead(value[2][2])
      [] OTHER -> written = <<Lead(value)>>

\* C14: an encode that returns Ok has written exactly one item; a sequence,
\* array or tuple wrote an array header with its number of elements and then
\* the elements in order, a map a map header with its number of entries and
\* then key and value of every entry, an Option its payload or one null, a
\* Result [0, v] or [1, v]; an encode whose Writer fails returns the error
\* having written what the Writer took before and nothing after it.
C14_SingleItem ==
    /\ [](eres = "ok" => (OneItem /\ AsValue /\ (cap = -1 \/ Len(written) <= cap)))
    /\ [](eres = "err" =>
            /\ cap # -1
            /\ Len(written) = cap
            /\ Len(Unlimited(<<value>>)) > cap
            /\ written = SubSeq(Unlimited(<<value>>), 1, cap))
    /\ [][ eres' = "err" => (eres = "running" /\ Len(written') = cap) ]_vars
    /\ [][ eres # "running" => UNCHANGED evars ]_vars

\* A map of two entries, one value a sequence, was written as one item.
C14_Witness ==
    /\ eres = "ok"
    /\ value = <<"map", << << <<"u32", 0>>, <<"seq", << <<"u32", 7>>, <<"str">> >> >> >>,
                           << <<"str">>, <<"res", "err", <<"str">>>> >> >> >>
    /\ written = << TMap(2), TUint(0), TArr(2), TUint(7), TStr,
                    TStr, TArr(2), TUint(1), TStr >>

====
